---- MODULE Spec2Model ----
(***************************************************************************)
(* Model of the hybrid retrieval engine of secure-rag-mvp                  *)
(* (src/app/hybrid_search.py): HybridSearcher.__init__, _tokenize, search  *)
(* and _normalize_scores.                                                  *)
(*                                                                         *)
(* Floating-point numbers are modelled by the exact rationals they round:  *)
(* a number is a record [n, d] in lowest terms with d > 0.  A numpy array  *)
(* is a record [dtype, vals]: the dtype decides what np.full_like stores.  *)
(***************************************************************************)
EXTENDS Integers, Sequences, FiniteSets, TLC

(* ------------------------------ bounds --------------------------------- *)
MaxPassages == 3
MaxTopK == 3
MaxLen == 3
MaxScore == 2
MaxTextLen == 4
MaxChunkSize == 3
MaxPageLen == 2

(* ---------------------------- rationals -------------------------------- *)
Abs(x) == IF x < 0 THEN -x ELSE x

RECURSIVE GCD(_, _)
GCD(a, b) == IF b = 0 THEN a ELSE GCD(b, a % b)

Rat(n, d) ==
    LET s == IF d < 0 THEN -1 ELSE 1
        g == GCD(Abs(n), Abs(d))
    IN  [n |-> (s * n) \div g, d |-> (s * d) \div g]

RAdd(x, y) == Rat(x.n * y.d + y.n * x.d, x.d * y.d)
RSub(x, y) == Rat(x.n * y.d - y.n * x.d, x.d * y.d)
RMul(x, y) == Rat(x.n * y.n, x.d * y.d)
RDiv(x, y) == Rat(x.n * y.d, x.d * y.n)
RLt(x, y) == x.n * y.d < y.n * x.d
RLeq(x, y) == x.n * y.d <= y.n * x.d

Zero == Rat(0, 1)
One == Rat(1, 1)
Half == Rat(1, 2)

Min(a, b) == IF a < b THEN a ELSE b
Max(a, b) == IF a > b THEN a ELSE b

(* ----------------------------- variables ------------------------------- *)
VARIABLES
    tie_order,            \* how this build's np.argsort orders equal keys
    ready,                \* a HybridSearcher has been constructed
    chunks,               \* self.chunks
    bm25_weight,          \* self.bm25_weight
    semantic_weight,      \* self.semantic_weight
    corpus,               \* self.corpus
    bm25,                 \* self.bm25
    op,                   \* the call whose outcome the caller holds: "none",
                          \* "init", "search" or "normalize"
    raised,               \* the exception that call raised, or "none"
    query,                \* search: argument query
    semantic_scores,      \* search: argument semantic_scores
    top_k,                \* search: argument top_k
    bm25_scores_norm,     \* search: local bm25_scores_norm
    semantic_scores_norm, \* search: local semantic_scores_norm
    combined_scores,      \* search: local combined_scores
    results,              \* search: the returned list
    scores,               \* _normalize_scores: argument scores
    normalized,           \* _normalize_scores: the returned array
    seen,                 \* an earlier search of the caller: arguments, outcome
    probe,                \* two rankings of lines 79-90 on nearby inputs
    seg,                  \* the last call into chunker.py: arguments, outcome
    threads,              \* per thread: position in search, arguments, locals
    server,               \* main.py: USE_DATABASE, EMBEDDING_TYPE, the stores
    response,             \* the last HTTP response the client received
    issued,               \* the ids the client got from POST /documents
    answered,             \* the last call of generate_answer: arguments, outcome
    embedded,             \* the last call of get_embedding: arguments, outcome
    job                   \* process_document_async: position, session, tables

searcher_vars == <<ready, chunks, bm25_weight, semantic_weight, corpus, bm25>>
call_vars == <<query, semantic_scores, top_k, bm25_scores_norm,
               semantic_scores_norm, combined_scores, results>>
norm_vars == <<scores, normalized>>
aux_vars == <<seen, probe, seg>>
api_vars == <<server, response, issued>>
app_vars == <<threads, api_vars, answered, embedded, job>>
vars == <<tie_order, searcher_vars, op, raised, call_vars, norm_vars, aux_vars,
          app_vars>>

(* ------------------------------ arrays --------------------------------- *)
Arr(dtype, vals) == [dtype |-> dtype, vals |-> vals]

Size(a) == Len(a.vals)

Indices(a) == 1..Len(a.vals)

\* The entry of a at the 0-based index i.
At(a, i) == a.vals[i + 1]

ArrMin(a) == CHOOSE x \in {a.vals[i] : i \in Indices(a)} :
                 \A i \in Indices(a) : RLeq(x, a.vals[i])

ArrMax(a) == CHOOSE x \in {a.vals[i] : i \in Indices(a)} :
                 \A i \in Indices(a) : RLeq(a.vals[i], x)

\* Conversion of a fill value to the array's dtype: int64 truncates toward 0.
Cast(dtype, x) ==
    IF dtype = "int64"
    THEN Rat((IF x.n < 0 THEN -1 ELSE 1) * (Abs(x.n) \div x.d), 1)
    ELSE x

\* full_like storing the fill value as an integer whatever the dtype.
full_like_truncated(a, fill_value) ==
    Arr(a.dtype, [i \in Indices(a) |-> Cast("int64", fill_value)])

full_like(a, fill_value) ==
    Arr(a.dtype, [i \in Indices(a) |-> Cast(a.dtype, fill_value)])

Ok(v) == [raised |-> "none", value |-> v]
Raise(e) == [raised |-> e, value |-> Arr("float64", <<>>)]

(* ----------------------- _normalize_scores ----------------------------- *)
\* min_max without the shift by the minimum: scores_array / (max - min).
min_max_unshifted(scores_array, min_score, max_score) ==
    IF max_score = min_score
    THEN Ok(full_like(scores_array, Half))
    ELSE Ok(Arr("float64",
                [i \in Indices(scores_array) |->
                    RDiv(scores_array.vals[i], RSub(max_score, min_score))]))

\* (scores_array - min_score) / (max_score - min_score)
min_max(scores_array, min_score, max_score) ==
    IF max_score = min_score
    THEN Ok(full_like(scores_array, Half))
    ELSE Ok(Arr("float64",
                [i \in Indices(scores_array) |->
                    RDiv(RSub(scores_array.vals[i], min_score),
                         RSub(max_score, min_score))]))

\* min() of an empty array raises ValueError.
normalize_scores(scores_array) ==
    IF Size(scores_array) = 0
    THEN Raise("ValueError")
    ELSE min_max(scores_array, ArrMin(scores_array), ArrMax(scores_array))

(* ----------------------------- _tokenize ------------------------------- *)
\* A text is the sequence of its whitespace-separated words.
RawWords == {"a", "A.", "b", "z", "."}

\* One word lower-cased and stripped of the punctuation at its ends.
LowerStrip(w) ==
    CASE w = "A." -> "a"
      [] w = "."  -> ""
      [] OTHER    -> w

tokenize(text) ==
    SelectSeq([i \in 1..Len(text) |-> LowerStrip(text[i])], LAMBDA t : t # "")

Vocabulary == {LowerStrip(w) : w \in RawWords} \ {""}

(* ------------------------------ BM25Okapi ------------------------------ *)
Count(doc, t) == Cardinality({j \in 1..Len(doc) : doc[j] = t})

NoIndex == [corpus_size |-> 0, doc_freqs |-> <<>>]

\* rank_bm25's index: the constructor divides the token count by the corpus
\* size (avgdl), so it raises ZeroDivisionError on an empty corpus.
BM25Okapi(tokenized) ==
    IF Len(tokenized) = 0
    THEN [raised |-> "ZeroDivisionError", value |-> NoIndex]
    ELSE [raised |-> "none",
          value |-> [corpus_size |-> Len(tokenized),
                     doc_freqs |-> [i \in 1..Len(tokenized) |->
                                       [t \in Vocabulary |-> Count(tokenized[i], t)]]]]

RECURSIVE TermSum(_, _)
TermSum(freqs, query_tokens) ==
    IF query_tokens = <<>> THEN 0
    ELSE freqs[Head(query_tokens)] + TermSum(freqs, Tail(query_tokens))

\* One float per passage, in passage order; a passage that holds no query
\* token scores 0.  The term weight of BM25 is abstracted to the term count.
get_scores(index, query_tokens) ==
    Arr("float64",
        [i \in 1..index.corpus_size |->
            Rat(TermSum(index.doc_freqs[i], query_tokens), 1)])

(* ------------------------------ numpy ---------------------------------- *)
\* scalar * array
Scale(w, a) == Arr("float64", [i \in Indices(a) |-> RMul(w, a.vals[i])])

\* array + array, with numpy's broadcasting of a length-1 operand.
Add(a, b) ==
    CASE Size(a) = Size(b) ->
            Ok(Arr("float64", [i \in Indices(a) |-> RAdd(a.vals[i], b.vals[i])]))
      [] Size(b) = 1 ->
            Ok(Arr("float64", [i \in Indices(a) |-> RAdd(a.vals[i], b.vals[1])]))
      [] Size(a) = 1 ->
            Ok(Arr("float64", [i \in Indices(b) |-> RAdd(a.vals[1], b.vals[i])]))
      [] OTHER -> Raise("ValueError")

\* i comes before j in np.argsort's output.  Equal keys have no guaranteed
\* order under the default kind: the build fixes one.
SortsBefore(vals, i, j, tie) ==
    \/ RLt(vals[i], vals[j])
    \/ /\ vals[i] = vals[j]
       /\ IF tie = "stable" THEN i < j ELSE i > j

RECURSIVE ArgsortFrom(_, _, _)
ArgsortFrom(vals, left, tie) ==
    IF left = {} THEN <<>>
    ELSE LET first == CHOOSE i \in left :
                          \A j \in left \ {i} : SortsBefore(vals, i, j, tie)
         IN  <<first - 1>> \o ArgsortFrom(vals, left \ {first}, tie)

\* 0-based indices in ascending order of value.
argsort(a, tie) == ArgsortFrom(a.vals, Indices(a), tie)

\* s[::-1]
Reversed(s) == [i \in 1..Len(s) |-> s[Len(s) + 1 - i]]

\* s[:k], for every integer k
Slice(s, k) ==
    LET stop == IF k >= 0 THEN Min(k, Len(s)) ELSE Max(Len(s) + k, 0)
    IN  SubSeq(s, 1, stop)

(* ------------------------- HybridSearcher.search ----------------------- *)
NoArr == Arr("float64", <<>>)

\* combine with the weights renormalized to sum to 1.
combine_renormalized(w_bm25, lexical_norm, w_semantic, semantic_norm) ==
    Add(Scale(RDiv(w_bm25, RAdd(w_bm25, w_semantic)), lexical_norm),
        Scale(RDiv(w_semantic, RAdd(w_bm25, w_semantic)), semantic_norm))

\* combine with the two weights exchanged.
combine_swapped(w_bm25, lexical_norm, w_semantic, semantic_norm) ==
    Add(Scale(w_semantic, lexical_norm), Scale(w_bm25, semantic_norm))

\* combine with the semantic term subtracted.
combine_difference(w_bm25, lexical_norm, w_semantic, semantic_norm) ==
    Add(Scale(w_bm25, lexical_norm),
        Scale(RSub(Zero, w_semantic), semantic_norm))

\* self.bm25_weight * bm25_scores_norm + self.semantic_weight * semantic_scores_norm
combine(w_bm25, lexical_norm, w_semantic, semantic_norm) ==
    Add(Scale(w_bm25, lexical_norm), Scale(w_semantic, semantic_norm))

\* top_indices without the reversal [::-1]: the k lowest scores.
top_indices_ascending(combined, k, tie) == Slice(argsort(combined, tie), k)

\* np.argsort(combined_scores)[::-1][:top_k]
top_indices(combined, k, tie) == Slice(Reversed(argsort(combined, tie)), k)

\* [(int(idx), float(combined_scores[idx])) for idx in top_indices]
result_list(combined, idxs) ==
    [p \in 1..Len(idxs) |-> [idx |-> idxs[p], score |-> At(combined, idxs[p])]]

Failed(e, lexical_norm, semantic_norm) ==
    [raised |-> e, bm25_scores_norm |-> lexical_norm,
     semantic_scores_norm |-> semantic_norm,
     combined_scores |-> NoArr, results |-> <<>>]

\* Lines 85-90: the ranking of the combined scores.
ranked(lexical_norm, semantic_norm, combined, k, tie) ==
    [raised |-> "none",
     bm25_scores_norm |-> lexical_norm,
     semantic_scores_norm |-> semantic_norm,
     combined_scores |-> combined,
     results |-> result_list(combined, top_indices(combined, k, tie))]

\* Lines 79-90, once both vectors are normalized.
fuse(w_bm25, lexical_norm, w_semantic, semantic_norm, combined, k, tie) ==
    IF combined.raised # "none"
    THEN Failed(combined.raised, lexical_norm, semantic_norm)
    ELSE ranked(lexical_norm, semantic_norm, combined.value, k, tie)

\* Lines 75-90, from the outcomes of the two normalizations.
normalized_search(w_bm25, lexical, w_semantic, semantic, k, tie) ==
    CASE lexical.raised # "none" -> Failed(lexical.raised, NoArr, NoArr)
      [] semantic.raised # "none" -> Failed(semantic.raised, lexical.value, NoArr)
      [] OTHER -> fuse(w_bm25, lexical.value, w_semantic, semantic.value,
                       combine(w_bm25, lexical.value, w_semantic, semantic.value),
                       k, tie)

\* search with a sort whose order of equal keys changes from call to call.
search_unstable(q, sem, k) ==
    normalized_search(bm25_weight,
                      normalize_scores(get_scores(bm25, tokenize(q))),
                      semantic_weight,
                      normalize_scores(sem),
                      k,
                      IF seen.set = (tie_order = "stable")
                      THEN "reversed" ELSE "stable")

\* The call search(q, sem, k) on the searcher of the current state: the
\* exception it raises or the list it returns, with the locals it computed.
search(q, sem, k) ==
    normalized_search(bm25_weight,
                      normalize_scores(get_scores(bm25, tokenize(q))),
                      semantic_weight,
                      normalize_scores(sem),
                      k, tie_order)

(* ------------------- search, one statement at a time ------------------- *)
\* The fields of the searcher.
Self ==
    [chunks |-> chunks, bm25_weight |-> bm25_weight,
     semantic_weight |-> semantic_weight, corpus |-> corpus, bm25 |-> bm25]

\* The frame after an exception left search.
Thrown(f, e) == [f EXCEPT !.pc = "done", !.raised = e]

\* The statement at f.pc with its local stored, or the exception it raised.
Stored(f, field, outcome, next) ==
    IF outcome.raised # "none" THEN Thrown(f, outcome.raised)
    ELSE [f EXCEPT ![field] = outcome.value, !.pc = next]

\* search keeping the query tokens in self.corpus between two statements.
statement_cached(self, f, tie) ==
    CASE f.pc = "tokenize" ->
            [self |-> [self EXCEPT !.corpus = <<tokenize(f.query)>>],
             frame |-> Stored(f, "query_tokens", Ok(tokenize(f.query)), "get_scores")]
      [] f.pc = "get_scores" ->
            [self |-> self,
             frame |-> Stored(f, "bm25_scores",
                              Ok(get_scores(self.bm25, Head(self.corpus))),
                              "normalize_lexical")]
      [] f.pc = "normalize_lexical" ->
            [self |-> self,
             frame |-> Stored(f, "bm25_scores_norm",
                              normalize_scores(f.bm25_scores), "normalize_semantic")]
      [] f.pc = "normalize_semantic" ->
            [self |-> self,
             frame |-> Stored(f, "semantic_scores_norm",
                              normalize_scores(f.semantic_scores), "combine")]
      [] f.pc = "combine" ->
            [self |-> self,
             frame |-> Stored(f, "combined_scores",
                              combine(self.bm25_weight, f.bm25_scores_norm,
                                      self.semantic_weight, f.semantic_scores_norm),
                              "argsort")]
      [] f.pc = "argsort" ->
            [self |-> self,
             frame |-> Stored(f, "top_indices",
                              Ok(top_indices(f.combined_scores, f.top_k, tie)),
                              "results")]
      [] f.pc = "results" ->
            [self |-> self,
             frame |-> Stored(f, "results",
                              Ok(result_list(f.combined_scores, f.top_indices)),
                              "done")]

\* search normalizing the caller's semantic vector in place.
statement_in_place(self, f, tie) ==
    CASE f.pc = "tokenize" ->
            [self |-> self,
             frame |-> Stored(f, "query_tokens", Ok(tokenize(f.query)), "get_scores")]
      [] f.pc = "get_scores" ->
            [self |-> self,
             frame |-> Stored(f, "bm25_scores",
                              Ok(get_scores(self.bm25, f.query_tokens)),
                              "normalize_lexical")]
      [] f.pc = "normalize_lexical" ->
            [self |-> self,
             frame |-> Stored(f, "bm25_scores_norm",
                              normalize_scores(f.bm25_scores), "normalize_semantic")]
      [] f.pc = "normalize_semantic" ->
            [self |-> self,
             frame |-> [Stored(f, "semantic_scores_norm",
                               normalize_scores(f.semantic_scores), "combine")
                        EXCEPT !.semantic_scores =
                                   normalize_scores(f.semantic_scores).value]]
      [] f.pc = "combine" ->
            [self |-> self,
             frame |-> Stored(f, "combined_scores",
                              combine(self.bm25_weight, f.bm25_scores_norm,
                                      self.semantic_weight, f.semantic_scores_norm),
                              "argsort")]
      [] f.pc = "argsort" ->
            [self |-> self,
             frame |-> Stored(f, "top_indices",
                              Ok(top_indices(f.combined_scores, f.top_k, tie)),
                              "results")]
      [] f.pc = "results" ->
            [self |-> self,
             frame |-> Stored(f, "results",
                              Ok(result_list(f.combined_scores, f.top_indices)),
                              "done")]

\* One statement of search (lines 72-90) run by the thread whose frame is f:
\* the searcher's fields and the frame after it.  Every statement reads
\* self and assigns a local; _normalize_scores works on a copy (np.array).
statement(self, f, tie) ==
    CASE f.pc = "tokenize" ->
            [self |-> self,
             frame |-> Stored(f, "query_tokens", Ok(tokenize(f.query)), "get_scores")]
      [] f.pc = "get_scores" ->
            [self |-> self,
             frame |-> Stored(f, "bm25_scores",
                              Ok(get_scores(self.bm25, f.query_tokens)),
                              "normalize_lexical")]
      [] f.pc = "normalize_lexical" ->
            [self |-> self,
             frame |-> Stored(f, "bm25_scores_norm",
                              normalize_scores(f.bm25_scores), "normalize_semantic")]
      [] f.pc = "normalize_semantic" ->
            [self |-> self,
             frame |-> Stored(f, "semantic_scores_norm",
                              normalize_scores(f.semantic_scores), "combine")]
      [] f.pc = "combine" ->
            [self |-> self,
             frame |-> Stored(f, "combined_scores",
                              combine(self.bm25_weight, f.bm25_scores_norm,
                                      self.semantic_weight, f.semantic_scores_norm),
                              "argsort")]
      [] f.pc = "argsort" ->
            [self |-> self,
             frame |-> Stored(f, "top_indices",
                              Ok(top_indices(f.combined_scores, f.top_k, tie)),
                              "results")]
      [] f.pc = "results" ->
            [self |-> self,
             frame |-> Stored(f, "results",
                              Ok(result_list(f.combined_scores, f.top_indices)),
                              "done")]

(* ------------------------------ chunker.py ----------------------------- *)
\* A text is the sequence of its characters.
Alphabet == {"x", "y"}

\* Python's seq[a:b] for integers a and b.
PySlice(seq, a, b) ==
    LET from == IF a < 0 THEN Max(a + Len(seq), 0) ELSE Min(a, Len(seq))
        to == IF b < 0 THEN Max(b + Len(seq), 0) ELSE Min(b, Len(seq))
    IN  SubSeq(seq, from + 1, to)

Returned_(cs) == [status |-> "returned", error |-> "none", chunks |-> cs]

\* The loop has not ended after len(text) rounds: start never passes the end.
Diverges == [status |-> "diverges", error |-> "none", chunks |-> <<>>]

Raised(e) == [status |-> "raised", error |-> e, chunks |-> <<>>]

\* The loop of chunk_text that ends one window early.
RECURSIVE chars_loop_short(_, _, _, _, _, _)
chars_loop_short(text, chunk_size, overlap, start, acc, rounds) ==
    IF ~(start + chunk_size < Len(text)) THEN Returned_(acc)
    ELSE IF rounds = 0 THEN Diverges
    ELSE chars_loop_short(text, chunk_size, overlap,
                          start + chunk_size - overlap,
                          Append(acc, PySlice(text, start,
                                              Min(start + chunk_size, Len(text)))),
                          rounds - 1)

\* The loop of chunk_text that advances by chunk_size.
RECURSIVE chars_loop_no_overlap(_, _, _, _, _, _)
chars_loop_no_overlap(text, chunk_size, overlap, start, acc, rounds) ==
    IF ~(start < Len(text)) THEN Returned_(acc)
    ELSE IF rounds = 0 THEN Diverges
    ELSE chars_loop_no_overlap(text, chunk_size, overlap,
                               start + chunk_size,
                               Append(acc, PySlice(text, start,
                                                   Min(start + chunk_size, Len(text)))),
                               rounds - 1)

\* Lines 8-11: the loop of chunk_text from the position start.  A loop that
\* ends does so within len(text) rounds, each advancing start by at least 1.
RECURSIVE chars_loop(_, _, _, _, _, _)
chars_loop(text, chunk_size, overlap, start, acc, rounds) ==
    IF ~(start < Len(text)) THEN Returned_(acc)
    ELSE IF rounds = 0 THEN Diverges
    ELSE chars_loop(text, chunk_size, overlap,
                    start + chunk_size - overlap,
                    Append(acc, PySlice(text, start,
                                        Min(start + chunk_size, Len(text)))),
                    rounds - 1)

chunk_text(text, chunk_size, overlap) ==
    chars_loop(text, chunk_size, overlap, 0, <<>>, Len(text))

\* The tokenizer that makes one token of every character.
Code(ch) == IF ch = "x" THEN 1 ELSE 2

Char(token) == IF token = 1 THEN "x" ELSE "y"

encode(text) == [i \in 1..Len(text) |-> Code(text[i])]

decode(tokens) == [i \in 1..Len(tokens) |-> Char(tokens[i])]

\* The loop of chunk_text_tokens that advances by chunk_size.
RECURSIVE tokens_loop_no_overlap(_, _, _, _, _, _)
tokens_loop_no_overlap(tokens, chunk_size, overlap, start, acc, rounds) ==
    IF ~(start < Len(tokens)) THEN Returned_(acc)
    ELSE IF rounds = 0 THEN Diverges
    ELSE tokens_loop_no_overlap(tokens, chunk_size, overlap,
                                start + chunk_size,
                                Append(acc, decode(PySlice(tokens, start,
                                           Min(start + chunk_size, Len(tokens))))),
                                rounds - 1)

\* Lines 23-28: the loop of chunk_text_tokens.
RECURSIVE tokens_loop(_, _, _, _, _, _)
tokens_loop(tokens, chunk_size, overlap, start, acc, rounds) ==
    IF ~(start < Len(tokens)) THEN Returned_(acc)
    ELSE IF rounds = 0 THEN Diverges
    ELSE tokens_loop(tokens, chunk_size, overlap,
                     start + chunk_size - overlap,
                     Append(acc, decode(PySlice(tokens, start,
                                Min(start + chunk_size, Len(tokens))))),
                     rounds - 1)

chunk_text_tokens(text, chunk_size, overlap, tokenizer) ==
    IF tokenizer = "none"
    THEN Raised("ValueError")
    ELSE tokens_loop(encode(text), chunk_size, overlap, 0, <<>>,
                     Len(encode(text)))

\* Lines 41-46 with page numbers counted from 0.
page_records_from_zero(page_num, page_chunks) ==
    [idx \in 1..Len(page_chunks) |->
        [page_number |-> page_num, chunk_index |-> idx - 1,
         text |-> page_chunks[idx]]]

\* Lines 41-46: the records of one page; page_num counts from 0.
page_records(page_num, page_chunks) ==
    [idx \in 1..Len(page_chunks) |->
        [page_number |-> page_num + 1, chunk_index |-> idx - 1,
         text |-> page_chunks[idx]]]

\* Lines 36-47 from the page page_num on; an exception or a loop that does
\* not end in a page is the outcome of the call.
RECURSIVE pages_loop(_, _, _, _, _, _, _)
after_page(pages, chunk_size, overlap, by_tokens, tokenizer, page_num, all_chunks, page) ==
    IF page.status # "returned"
    THEN [status |-> page.status, error |-> page.error, chunks |-> all_chunks]
    ELSE pages_loop(pages, chunk_size, overlap, by_tokens, tokenizer,
                    page_num + 1,
                    all_chunks \o page_records(page_num, page.chunks))

pages_loop(pages, chunk_size, overlap, by_tokens, tokenizer, page_num, all_chunks) ==
    IF page_num >= Len(pages) THEN Returned_(all_chunks)
    ELSE after_page(pages, chunk_size, overlap, by_tokens, tokenizer,
                    page_num, all_chunks,
                    IF by_tokens
                    THEN chunk_text_tokens(pages[page_num + 1], chunk_size,
                                           overlap, tokenizer)
                    ELSE chunk_text(pages[page_num + 1], chunk_size, overlap))

chunk_pages(pages, chunk_size, overlap, by_tokens, tokenizer) ==
    pages_loop(pages, chunk_size, overlap, by_tokens, tokenizer, 0, <<>>)

StringsUpTo(n) == UNION {[1..m -> Alphabet] : m \in 0..n}

ChunkSizes == 0..MaxChunkSize

Overlaps == (-1)..(MaxChunkSize + 1)

Tokenizers == {"none", "chars"}

\* Documents of at most two pages.
PageSequences == UNION {[1..m -> StringsUpTo(MaxPageLen)] : m \in 0..2}

SegCall(call, text, pages, chunk_size, overlap, by_tokens, tokenizer, out) ==
    [call |-> call, text |-> text, pages |-> pages, chunk_size |-> chunk_size,
     overlap |-> overlap, by_tokens |-> by_tokens, tokenizer |-> tokenizer,
     status |-> out.status, error |-> out.error, chunks |-> out.chunks]

SegUnchanged ==
    UNCHANGED <<tie_order, searcher_vars, op, raised, call_vars, norm_vars,
                seen, probe, app_vars>>

\* chunk_text(text, chunk_size, overlap)
ChunkText ==
    /\ seg.call = "none"
    /\ op = "none"
    /\ \E text \in StringsUpTo(MaxTextLen), c \in ChunkSizes, o \in Overlaps :
           seg' = SegCall("chunk_text", text, <<>>, c, o, FALSE, "none",
                          chunk_text(text, c, o))
    /\ SegUnchanged

\* chunk_text_tokens(text, chunk_size, overlap, tokenizer)
ChunkTextTokens ==
    /\ seg.call = "none"
    /\ op = "none"
    /\ \E text \in StringsUpTo(MaxTextLen), c \in ChunkSizes, o \in Overlaps,
          tokenizer \in Tokenizers :
           seg' = SegCall("chunk_text_tokens", text, <<>>, c, o, TRUE, tokenizer,
                          chunk_text_tokens(text, c, o, tokenizer))
    /\ SegUnchanged

\* chunk_pages(pages, chunk_size, overlap, by_tokens, tokenizer)
ChunkPages ==
    /\ seg.call = "none"
    /\ op = "none"
    /\ \E pages \in PageSequences, c \in ChunkSizes, o \in Overlaps,
          by_tokens \in BOOLEAN, tokenizer \in Tokenizers :
           seg' = SegCall("chunk_pages", <<>>, pages, c, o, by_tokens, tokenizer,
                          chunk_pages(pages, c, o, by_tokens, tokenizer))
    /\ SegUnchanged

SegNext == ChunkText \/ ChunkTextTokens \/ ChunkPages

(* ------------------------------ inputs --------------------------------- *)
Texts == {<<"a", "A.">>, <<"b", ".">>}

Queries == {<<"A.">>, <<".">>}

\* Where a chunk of the collection sits in its document: consecutive chunks
\* of one page, or one chunk per page.
Layouts == {"forward", "paged"}

Chunk(layout, n, k, text) ==
    [id |-> k,
     sequence_index |-> IF layout = "forward" THEN k - 1 ELSE 0,
     text |-> text]

Collections ==
    UNION {{[k \in 1..n |-> Chunk(layout, n, k, texts[k])] :
                texts \in [1..n -> Texts], layout \in Layouts} :
           n \in 0..MaxPassages}

Weights == {[bm25 |-> Rat(3, 10), semantic |-> Rat(7, 10)],
            [bm25 |-> Rat(1, 1), semantic |-> Rat(1, 1)],
            [bm25 |-> Rat(1, 1), semantic |-> Rat(0, 1)]}

\* Semantic score vectors: floats 0.1, 0.5, 0.9 or the integers 1, 9.
SemArrays(maxlen) ==
    UNION {{Arr("float64", [i \in 1..m |-> Rat(v[i], 10)]) : v \in [1..m -> {1, 5, 9}]}
           \cup {Arr("int64", [i \in 1..m |-> Rat(v[i], 1)]) : v \in [1..m -> {1, 9}]} :
           m \in 0..maxlen}

TopKs == (-1)..MaxTopK

\* Arguments of _normalize_scores: integers, or floats in steps of 0.5.
ScoreArrays ==
    UNION {{Arr("float64", [i \in 1..m |-> Rat(v[i], 2)]) : v \in [1..m -> (-1)..MaxScore]}
           \cup {Arr("int64", [i \in 1..m |-> Rat(v[i], 1)]) : v \in [1..m -> (-1)..MaxScore]} :
           m \in 0..MaxLen}

(* ------------------------------ actions -------------------------------- *)
NoCall ==
    /\ query = <<>>
    /\ semantic_scores = NoArr
    /\ top_k = 0
    /\ bm25_scores_norm = NoArr
    /\ semantic_scores_norm = NoArr
    /\ combined_scores = NoArr
    /\ results = <<>>

NoSeen == [set |-> FALSE]

NoProbe == [set |-> FALSE]

NoSeg == [call |-> "none"]

NoAux ==
    /\ seen = NoSeen
    /\ probe = NoProbe
    /\ seg = NoSeg

Threads == {1, 2}

\* A thread that is not in search.
NoFrame ==
    [pc |-> "idle", query |-> <<>>, semantic_scores |-> NoArr, top_k |-> 0,
     query_tokens |-> <<>>, bm25_scores |-> NoArr, bm25_scores_norm |-> NoArr,
     semantic_scores_norm |-> NoArr, combined_scores |-> NoArr,
     top_indices |-> <<>>, raised |-> "none", results |-> <<>>]

\* main.py before its import has run.
NotStarted ==
    [started |-> FALSE, USE_DATABASE |-> FALSE, EMBEDDING_TYPE |-> "none",
     documents_db |-> <<>>, documents |-> <<>>, last_id |-> 0]

NoResponse == [endpoint |-> "none"]

NoApp ==
    /\ threads = [t \in Threads |-> NoFrame]
    /\ server = NotStarted
    /\ response = NoResponse
    /\ issued = <<>>
    /\ answered = [call |-> "none"]
    /\ embedded = [call |-> "none"]
    /\ job = [pc |-> "none"]

Init ==
    /\ tie_order \in {"stable", "reversed"}
    /\ ready = FALSE
    /\ chunks = <<>>
    /\ bm25_weight = Zero
    /\ semantic_weight = Zero
    /\ corpus = <<>>
    /\ bm25 = NoIndex
    /\ op = "none"
    /\ raised = "none"
    /\ NoCall
    /\ scores = NoArr
    /\ normalized = NoArr
    /\ NoAux
    /\ NoApp

\* HybridSearcher(cs, w_bm25, w_semantic)
HybridSearcherInit(cs, w_bm25, w_semantic) ==
    \E index \in {BM25Okapi([i \in 1..Len(cs) |-> tokenize(cs[i].text)])} :
        /\ chunks' = cs
        /\ bm25_weight' = w_bm25
        /\ semantic_weight' = w_semantic
        /\ corpus' = [i \in 1..Len(cs) |-> tokenize(cs[i].text)]
        /\ bm25' = index.value
        /\ ready' = (index.raised = "none")
        /\ op' = "init"
        /\ raised' = index.raised
        /\ query' = <<>>
        /\ semantic_scores' = NoArr
        /\ top_k' = 0
        /\ bm25_scores_norm' = NoArr
        /\ semantic_scores_norm' = NoArr
        /\ combined_scores' = NoArr
        /\ results' = <<>>
        /\ UNCHANGED <<tie_order, norm_vars, aux_vars, app_vars>>

\* searcher.search(q, sem, k)
Search(q, sem, k) ==
    /\ \E r \in {search(q, sem, k)} :
           /\ query' = q
           /\ semantic_scores' = sem
           /\ top_k' = k
           /\ raised' = r.raised
           /\ bm25_scores_norm' = r.bm25_scores_norm
           /\ semantic_scores_norm' = r.semantic_scores_norm
           /\ combined_scores' = r.combined_scores
           /\ results' = r.results
    /\ op' = "search"
    /\ UNCHANGED <<tie_order, searcher_vars, norm_vars, aux_vars, app_vars>>

\* searcher._normalize_scores(scores)
Normalize ==
    /\ op = "none"
    /\ \E r \in {normalize_scores(scores)} :
           /\ normalized' = r.value
           /\ raised' = r.raised
    /\ op' = "normalize"
    /\ UNCHANGED <<tie_order, searcher_vars, call_vars, scores, aux_vars, app_vars>>

\* The caller is done with the list (or the exception) of its last search:
\* what it holds is the searcher again.
Release ==
    /\ op = "search"
    /\ op' = "init"
    /\ raised' = "none"
    /\ query' = <<>>
    /\ semantic_scores' = NoArr
    /\ top_k' = 0
    /\ bm25_scores_norm' = NoArr
    /\ semantic_scores_norm' = NoArr
    /\ combined_scores' = NoArr
    /\ results' = <<>>
    /\ UNCHANGED <<tie_order, searcher_vars, norm_vars, aux_vars, app_vars>>

Build ==
    /\ op # "search"
    /\ \E cs \in Collections, w \in Weights :
           HybridSearcherInit(cs, w.bm25, w.semantic)

\* The semantic vector has at most one entry more than there are passages.
Rank ==
    /\ ready
    /\ op # "search"
    /\ \E q \in Queries, k \in TopKs,
          sem \in SemArrays(Min(MaxPassages, Len(chunks) + 1)) :
           Search(q, sem, k)

Next == Build \/ Rank \/ Release

Spec == Init /\ [][Next]_vars

\* The normalizer alone: a searcher's _normalize_scores is about to be
\* called on an array of ScoreArrays.
NormInit ==
    /\ tie_order = "stable"
    /\ ready = FALSE
    /\ chunks = <<>>
    /\ bm25_weight = Zero
    /\ semantic_weight = Zero
    /\ corpus = <<>>
    /\ bm25 = NoIndex
    /\ op = "none"
    /\ raised = "none"
    /\ NoCall
    /\ scores \in ScoreArrays
    /\ normalized = NoArr
    /\ NoAux
    /\ NoApp

NormNext == Normalize

NormSpec == NormInit /\ [][NormNext]_vars

\* The segmenter alone.
SegSpec == Init /\ [][SegNext]_vars

(* ------------------- the ranking stage on its own --------------------- *)
\* Normalized scores: the ends of the unit interval and, for the semantic
\* vector, its middle.
NormValues(which) == IF which = "lexical" THEN {Zero, One} ELSE {Zero, Half, One}

NormVectors(which, n) == [1..n -> NormValues(which)]

\* Lines 79-90 on two normalized vectors: the indices in ranked order.
IndicesOf(result) == [p \in 1..Len(result) |-> result[p].idx]

rank(w_bm25, lexical_norm, w_semantic, semantic_norm, k, tie) ==
    IndicesOf(fuse(w_bm25, lexical_norm, w_semantic, semantic_norm,
                   combine(w_bm25, lexical_norm, w_semantic, semantic_norm),
                   k, tie).results)

\* The ranking of (lexical, semantic), and the ranking after the score of
\* the passage at position i of one of the two vectors is raised to v.
RankTwice(w, lexical, semantic, i, which, v, k) ==
    /\ \E lexical_up \in {IF which = "lexical"
                           THEN [lexical EXCEPT ![i] = v] ELSE lexical},
          semantic_up \in {IF which = "semantic"
                            THEN [semantic EXCEPT ![i] = v] ELSE semantic} :
        \E before \in {rank(w.bm25, Arr("float64", lexical), w.semantic,
                             Arr("float64", semantic), k, tie_order)},
           after \in {rank(w.bm25, Arr("float64", lexical_up), w.semantic,
                            Arr("float64", semantic_up), k, tie_order)} :
            probe' = [set |-> TRUE, passage |-> i - 1, which |-> which,
                      size |-> Len(lexical), weights |-> w,
                      lexical |-> lexical, semantic |-> semantic,
                      lexical_up |-> lexical_up, semantic_up |-> semantic_up,
                      before |-> before, after |-> after]
    /\ UNCHANGED <<tie_order, searcher_vars, op, raised, call_vars, norm_vars,
                   seen, seg, app_vars>>

RaiseOneScore ==
    /\ ~probe.set
    /\ op = "none"
    /\ \E n \in 2..MaxPassages :
           \E lexical \in NormVectors("lexical", n),
              semantic \in NormVectors("semantic", n),
              i \in 1..n, which \in {"lexical", "semantic"},
              w \in Weights, k \in {n - 1, n} :
             \E v \in NormValues(which) :
               /\ RLt((IF which = "lexical" THEN lexical ELSE semantic)[i], v)
               /\ RankTwice(w, lexical, semantic, i, which, v, k)

FuseNext == RaiseOneScore

FuseSpec == Init /\ [][FuseNext]_vars

(* --------------------- repeated calls of search ------------------------ *)
\* Collections of two consecutive chunks of one page.
PairCollections ==
    {cs \in Collections : Len(cs) = 2 /\ cs[2].sequence_index = 1}

\* Float vectors with one semantic score for each of the two.
PairSemArrays ==
    {a \in SemArrays(2) : Size(a) = 2 /\ a.dtype = "float64"}

PairBuild ==
    /\ ~seen.set
    /\ op # "search"
    /\ \E cs \in PairCollections, w \in Weights :
           HybridSearcherInit(cs, w.bm25, w.semantic)

PairRank ==
    /\ ready
    /\ op # "search"
    /\ \E q \in Queries, sem \in PairSemArrays, k \in {1, 2} :
           Search(q, sem, k)

\* The caller keeps the arguments and the outcome of the search it holds, to
\* compare them with a later call on the same searcher.
Remember ==
    /\ op = "search"
    /\ ~seen.set
    /\ seen' = [set |-> TRUE, query |-> query,
                semantic_scores |-> semantic_scores, top_k |-> top_k,
                raised |-> raised, results |-> results]
    /\ UNCHANGED <<tie_order, searcher_vars, op, raised, call_vars, norm_vars,
                   probe, seg, app_vars>>

RepeatNext == PairBuild \/ PairRank \/ Remember \/ Release

RepeatSpec == Init /\ [][RepeatNext]_vars

(* -------------------- searches of two threads at once ------------------ *)
\* Semantic vectors of the concurrent calls.
ThreadSemArrays == {a \in PairSemArrays : a.vals[1] = Half}

OthersUnchanged ==
    UNCHANGED <<tie_order, op, raised, call_vars, norm_vars, aux_vars, api_vars,
                answered, embedded, job>>

\* One searcher is built before any thread calls it.
SharedBuild ==
    /\ ~ready
    /\ op = "none"
    /\ \E cs \in PairCollections, w \in Weights :
           HybridSearcherInit(cs, w.bm25, w.semantic)

\* Thread t enters search(q, sem, k).
Call(t) ==
    /\ ready
    /\ threads[t].pc = "idle"
    /\ \E q \in Queries, sem \in ThreadSemArrays, k \in {1, 2} :
           threads' = [threads EXCEPT ![t] =
                          [NoFrame EXCEPT !.pc = "tokenize", !.query = q,
                                          !.semantic_scores = sem, !.top_k = k]]
    /\ UNCHANGED searcher_vars
    /\ OthersUnchanged

\* Thread t runs its next statement of search.
Statement(t) ==
    /\ threads[t].pc \notin {"idle", "done"}
    /\ \E r \in {statement(Self, threads[t], tie_order)} :
           /\ threads' = [threads EXCEPT ![t] = r.frame]
           /\ chunks' = r.self.chunks
           /\ bm25_weight' = r.self.bm25_weight
           /\ semantic_weight' = r.self.semantic_weight
           /\ corpus' = r.self.corpus
           /\ bm25' = r.self.bm25
    /\ UNCHANGED ready
    /\ OthersUnchanged

ThreadNext == SharedBuild \/ \E t \in Threads : Call(t) \/ Statement(t)

ThreadSpec == Init /\ [][ThreadNext]_vars

(* ------------------------------- main.py ------------------------------- *)
MaxDocs == 2

FileNames == {"a.PDF", "b.txt"}

\* file.filename.split('.')[-1].lower()
Extension(filename) == IF filename = "a.PDF" THEN "pdf" ELSE "txt"

\* A mapping as the sequence of its entries, in insertion order.
Keys(store) == {store[i].id : i \in 1..Len(store)}

Lookup(store, id) == store[CHOOSE i \in 1..Len(store) : store[i].id = id]

\* Lines 13-56: the module's import.  A database that cannot be reached
\* leaves the server in in-memory mode without embeddings.
startup(database_url, database_up, embeddings) ==
    [started |-> TRUE,
     USE_DATABASE |-> database_url /\ database_up,
     EMBEDDING_TYPE |-> IF database_url /\ database_up THEN embeddings ELSE "none",
     documents_db |-> <<>>, documents |-> <<>>, last_id |-> 0]

HttpError(endpoint, status) ==
    [endpoint |-> endpoint, status |-> status, body |-> [kind |-> "error"]]

\* upload_document answering with the id without storing the document.
upload_document_unsaved(srv, filename, fault) ==
    [server |-> [srv EXCEPT !.last_id = srv.last_id + 1],
     response |-> [endpoint |-> "POST /documents", status |-> 200,
                   body |-> [kind |-> "object", id |-> srv.last_id + 1,
                             title |-> filename]]]

\* Lines 190-248.  doc_id is a fresh uuid4; fault is what fails in the
\* call: writing the file, the database commit, or nothing.
upload_document(srv, filename, fault) ==
    LET doc_id == srv.last_id + 1
        doc == [id |-> doc_id, title |-> filename,
                source_type |-> Extension(filename)]
        drawn == [srv EXCEPT !.last_id = doc_id]
    IN  CASE fault = "write" ->
                [server |-> drawn, response |-> HttpError("POST /documents", 500)]
          [] srv.USE_DATABASE /\ fault = "commit" ->
                [server |-> drawn, response |-> HttpError("POST /documents", 500)]
          [] srv.USE_DATABASE ->
                [server |-> [drawn EXCEPT !.documents = Append(@, doc)],
                 response |-> [endpoint |-> "POST /documents", status |-> 200,
                               body |-> [kind |-> "object", id |-> doc_id,
                                         title |-> filename]]]
          [] OTHER ->
                [server |-> [drawn EXCEPT !.documents_db = Append(@, doc)],
                 response |-> [endpoint |-> "POST /documents", status |-> 200,
                               body |-> [kind |-> "object", id |-> doc_id,
                                         title |-> filename]]]

\* Lines 280-313.  A failing database query is an unhandled exception.
get_document_status(srv, doc_id, database_ok) ==
    LET store == IF srv.USE_DATABASE THEN srv.documents ELSE srv.documents_db
    IN  CASE srv.USE_DATABASE /\ ~database_ok ->
                HttpError("GET /documents/{id}", 500)
          [] doc_id \notin Keys(store) ->
                HttpError("GET /documents/{id}", 404)
          [] OTHER ->
                [endpoint |-> "GET /documents/{id}", status |-> 200,
                 body |-> [kind |-> "object", id |-> doc_id,
                           title |-> Lookup(store, doc_id).title]]

\* The values of top_k in a request body: QueryRequest admits 1..50.
RequestTopKs == {0, 1, 2, 50, 51}

\* Lines 315-408 behind the validation of QueryRequest (lines 59-71).  The
\* body is the QueryResponse object of lines 389-404.
query_documents(srv, question, k, embedding_ok, database_ok) ==
    CASE ~(k >= 1 /\ k <= 50) -> HttpError("POST /query", 422)
      [] ~srv.USE_DATABASE -> HttpError("POST /query", 501)
      [] srv.EMBEDDING_TYPE = "none" -> HttpError("POST /query", 501)
      [] ~embedding_ok \/ ~database_ok -> HttpError("POST /query", 500)
      [] OTHER ->
            [endpoint |-> "POST /query", status |-> 200,
             body |-> [kind |-> "object", question |-> question,
                       embedding_type |-> srv.EMBEDDING_TYPE,
                       results |-> [kind |-> "list"]]]

ApiUnchanged ==
    UNCHANGED <<tie_order, searcher_vars, op, raised, call_vars, norm_vars,
                aux_vars, threads, answered, embedded, job>>

Startup ==
    /\ ~server.started
    /\ \E database_url \in BOOLEAN, database_up \in BOOLEAN,
          embeddings \in {"none", "local", "openai"} :
           server' = startup(database_url, database_up, embeddings)
    /\ UNCHANGED <<response, issued>>
    /\ ApiUnchanged

\* POST /documents
PostDocuments ==
    /\ server.started
    /\ server.last_id < MaxDocs
    /\ \E filename \in FileNames, fault \in {"none", "write", "commit"} :
         \E r \in {upload_document(server, filename, fault)} :
           /\ server' = r.server
           /\ response' = r.response
           /\ issued' = IF r.response.status = 200
                         THEN Append(issued, [id |-> r.response.body.id,
                                              title |-> filename])
                         ELSE issued
    /\ ApiUnchanged

\* GET /documents/{doc_id}
GetDocument ==
    /\ server.started
    /\ \E doc_id \in 1..MaxDocs, database_ok \in BOOLEAN :
           response' = get_document_status(server, doc_id, database_ok)
                       @@ [requested |-> doc_id, database_ok |-> database_ok]
    /\ UNCHANGED <<server, issued>>
    /\ ApiUnchanged

\* POST /query with a JSON body {question, top_k}
PostQuery ==
    /\ server.started
    /\ \E k \in RequestTopKs, embedding_ok \in BOOLEAN, database_ok \in BOOLEAN :
           response' = query_documents(server, "test", k, embedding_ok, database_ok)
                       @@ [top_k |-> k]
    /\ UNCHANGED <<server, issued>>
    /\ ApiUnchanged

ApiNext == Startup \/ PostDocuments \/ GetDocument \/ PostQuery

ApiSpec == Init /\ [][ApiNext]_vars

(* ------------------------------ answer.py ------------------------------ *)
MaxContext == 4

\* The i-th retrieved chunk, as answer_question builds it (main.py 492-503);
\* its text is one of the distinct texts 101, 102, ...
ContextChunk(i) ==
    [chunk_id |-> 10 + i, text |-> 100 + i, page_number |-> i,
     document |-> "a.PDF", document_id |-> "doc"]

Contexts == {[i \in 1..n |-> ContextChunk(i)] : n \in 0..MaxContext}

\* What the environment holds in OPENAI_API_KEY.
ApiKeys == {"unset", "", "sk"}

\* The chunk_id field of a citation in the model's JSON: a number, a text
\* that is no number, or no such field.
RawChunkIds ==
    {[kind |-> "number", value |-> v] : v \in {11, 12, 99}}
    \cup {[kind |-> "missing", value |-> 0], [kind |-> "word", value |-> 0]}

\* The outcome of generate_answer_openai's API call and json.loads: an
\* exception, or a JSON object with an answer and up to two citations.
LlmReplies ==
    {[kind |-> "raise", error |-> e, answer |-> "", citations |-> <<>>] :
         e \in {"APIError", "JSONDecodeError"}}
    \cup {[kind |-> "json", error |-> "none", answer |-> a, citations |-> cs] :
             a \in {"grounded", "No information in documents"},
             cs \in UNION {[1..m -> RawChunkIds] : m \in 0..2}}

\* An answer text: what the model said, or the texts of the chunks quoted.
NoInformation == [said |-> "No information in documents.", parts |-> <<>>]

AnswerWithCitations(answer, citations, sufficient) ==
    [status |-> "returned", error |-> "none", answer |-> answer,
     citations |-> citations, has_sufficient_context |-> sufficient]

AnswerRaised(e) ==
    [status |-> "raised", error |-> e,
     answer |-> [said |-> "", parts |-> <<>>], citations |-> <<>>,
     has_sufficient_context |-> FALSE]

\* Lines 96-111: the citations whose fields convert; a missing chunk_id is 0.
RECURSIVE ParsedCitations(_)
ParsedCitations(raw) ==
    IF raw = <<>> THEN <<>>
    ELSE IF Head(raw).kind = "word" THEN ParsedCitations(Tail(raw))
    ELSE <<[chunk_id |-> IF Head(raw).kind = "missing" THEN 0 ELSE Head(raw).value,
            source |-> "llm"]>>
         \o ParsedCitations(Tail(raw))

\* Lines 60-117, given what the API call and json.loads gave.
generate_answer_openai(question, context, reply) ==
    IF reply.kind = "raise" THEN AnswerRaised(reply.error)
    ELSE AnswerWithCitations([said |-> reply.answer, parts |-> <<>>],
                             ParsedCitations(reply.citations), TRUE)

\* Lines 120-153
generate_answer_local(question, context) ==
    IF context = <<>>
    THEN AnswerWithCitations(NoInformation, <<>>, FALSE)
    ELSE AnswerWithCitations(
             [said |-> "",
              parts |-> [i \in 1..Min(3, Len(context)) |-> context[i].text]],
             [i \in 1..Min(3, Len(context)) |->
                 [chunk_id |-> context[i].chunk_id, source |-> "local"]],
             TRUE)

\* generate_answer without the except clause of lines 191-197.
generate_answer_unguarded(question, context, use_openai, api_key, reply) ==
    CASE context = <<>> ->
            AnswerWithCitations(NoInformation, <<>>, FALSE)
      [] use_openai /\ api_key \notin {"unset", ""} ->
            generate_answer_openai(question, context, reply)
      [] OTHER -> generate_answer_local(question, context)

\* Lines 156-202.  `if api_key:` is false for an unset and for an empty key.
generate_answer(question, context, use_openai, api_key, reply) ==
    CASE context = <<>> ->
            AnswerWithCitations(NoInformation, <<>>, FALSE)
      [] use_openai /\ api_key \notin {"unset", ""} ->
            IF generate_answer_openai(question, context, reply).status = "raised"
            THEN generate_answer_local(question, context)
            ELSE generate_answer_openai(question, context, reply)
      [] OTHER -> generate_answer_local(question, context)

GenerateAnswer ==
    /\ answered.call = "none"
    /\ op = "none"
    /\ \E context \in Contexts, use_openai \in BOOLEAN, api_key \in ApiKeys,
          reply \in LlmReplies :
           answered' = [call |-> "generate_answer", question |-> "q",
                        chunks |-> context, use_openai |-> use_openai,
                        api_key |-> api_key, reply |-> reply,
                        result |-> generate_answer("q", context, use_openai,
                                                   api_key, reply)]
    /\ UNCHANGED <<tie_order, searcher_vars, op, raised, call_vars, norm_vars,
                   aux_vars, threads, api_vars, embedded, job>>

AnswerNext == GenerateAnswer

AnswerSpec == Init /\ [][AnswerNext]_vars

(* ----------------------------- embedding.py ---------------------------- *)
MaxRetries == 3

RECURSIVE Pow2(_)
Pow2(k) == IF k <= 0 THEN 1 ELSE 2 * Pow2(k - 1)

\* What client.embeddings.create does on the attempts 0, 1, 2, ...
Outcomes == [0..(MaxRetries - 1) -> {"ok", "fail"}]

None == [kind |-> "None", attempt |-> 0]

\* The vector the API returned on the attempt k.
EmbeddingOf(k) == [kind |-> "embedding", attempt |-> k]

NoError == [kind |-> "none", attempt |-> 0]

\* The exception the API raised on the attempt k.
ErrorOf(k) == [kind |-> "error", attempt |-> k]

Attempted(status, attempts, value, error, sleeps) ==
    [status |-> status, attempts |-> attempts, value |-> value,
     error |-> error, sleeps |-> sleeps]

\* Lines 16-25 from the attempt `attempt` on.  A loop that ends without a
\* return or a raise makes the function return None.
RECURSIVE retry_loop(_, _, _, _, _)
retry_loop(attempt, max_retries, retry_delay, outcomes, sleeps) ==
    IF ~(attempt < max_retries)
    THEN Attempted("returned", attempt, None, NoError, sleeps)
    ELSE IF outcomes[attempt] = "ok"
    THEN Attempted("returned", attempt + 1, EmbeddingOf(attempt), NoError, sleeps)
    ELSE IF attempt < max_retries - 1
    THEN retry_loop(attempt + 1, max_retries, retry_delay, outcomes,
                    Append(sleeps, retry_delay * Pow2(attempt)))
    ELSE Attempted("raised", attempt + 1, None, ErrorOf(attempt), sleeps)

\* Lines 13-25
get_embedding(max_retries, retry_delay, outcomes) ==
    retry_loop(0, max_retries, retry_delay, outcomes, <<>>)

GetEmbedding ==
    /\ embedded.call = "none"
    /\ op = "none"
    /\ \E max_retries \in (-1)..MaxRetries, retry_delay \in {1, 2},
          outcomes \in Outcomes :
           embedded' = [call |-> "get_embedding", max_retries |-> max_retries,
                        retry_delay |-> retry_delay, outcomes |-> outcomes,
                        result |-> get_embedding(max_retries, retry_delay, outcomes)]
    /\ UNCHANGED <<tie_order, searcher_vars, op, raised, call_vars, norm_vars,
                   aux_vars, threads, api_vars, answered, job>>

EmbeddingNext == GetEmbedding

EmbeddingSpec == Init /\ [][EmbeddingNext]_vars

(* ----------------------- process_document_async ----------------------- *)
\* Rows of the document: how many pages, chunks and embeddings.
NoRows == [pages |-> 0, chunks |-> 0, embeddings |-> 0]

\* db.commit(): the rows added to the session become persistent.
commit(j) ==
    [j EXCEPT !.persisted = [pages |-> @.pages + j.pending.pages,
                             chunks |-> @.chunks + j.pending.chunks,
                             embeddings |-> @.embeddings + j.pending.embeddings],
              !.pending = NoRows]

\* db.rollback(): the rows added since the last commit are dropped.
rollback(j) == [j EXCEPT !.pending = NoRows]

\* An exception in the try block of lines 90-153 leads to line 155.
Except(j, step) == [j EXCEPT !.pc = "except", !.failed_step = step]

JobUnchanged ==
    UNCHANGED <<tie_order, searcher_vars, op, raised, call_vars, norm_vars,
                aux_vars, threads, api_vars, answered, embedded>>

\* The background task starts on a document of one or two pages.
StartJob ==
    /\ job.pc = "none"
    /\ op = "none"
    /\ \E embedding_type \in {"none", "local", "openai"}, n_pages \in {1, 2},
          chunks_per_page \in {1, 2} :
           job' = [pc |-> "extract", EMBEDDING_TYPE |-> embedding_type,
                   n_pages |-> n_pages, n_chunks |-> n_pages * chunks_per_page,
                   pending |-> NoRows, persisted |-> NoRows,
                   failed_step |-> "none", closed |-> FALSE]
    /\ JobUnchanged

\* Line 94: extract_text raises or returns the pages.
ExtractText ==
    /\ job.pc = "extract"
    /\ \E fails \in BOOLEAN :
           job' = IF fails THEN Except(job, "extract")
                  ELSE [job EXCEPT !.pc = "save_pages"]
    /\ JobUnchanged

\* Lines 98-105: the pages are added and committed.
SavePages ==
    /\ job.pc = "save_pages"
    /\ \E fails \in BOOLEAN :
         \E added \in {[job EXCEPT !.pending.pages = job.n_pages]} :
           job' = IF fails THEN Except(added, "save_pages")
                  ELSE [commit(added) EXCEPT !.pc = "chunk"]
    /\ JobUnchanged

\* Line 109: chunk_pages(pages, chunk_size=1000, overlap=150), which
\* returns for every list of page texts (overlap < chunk_size).
ChunkPagesStep ==
    /\ job.pc = "chunk"
    /\ job' = [job EXCEPT !.pc = "save_chunks"]
    /\ JobUnchanged

\* Lines 113-125: the chunks are added and flushed one by one, then
\* committed; the failure is a flush after `done` chunks or the commit.
SaveChunks ==
    /\ job.pc = "save_chunks"
    /\ \E fails \in BOOLEAN, done \in 0..job.n_chunks :
           job' = IF fails
                  THEN Except([job EXCEPT !.pending.chunks = done], "save_chunks")
                  ELSE [commit([job EXCEPT !.pending.chunks = job.n_chunks])
                        EXCEPT !.pc = "embed"]
    /\ JobUnchanged

\* Lines 129-151: an embedding that cannot be made is skipped (lines
\* 146-147); the commit of line 148 may fail.
SaveEmbeddings ==
    /\ job.pc = "embed"
    /\ \E fails \in BOOLEAN, made \in 0..job.n_chunks :
           job' = IF job.EMBEDDING_TYPE = "none"
                  THEN [job EXCEPT !.pc = "finally"]
                  ELSE IF fails
                  THEN Except([job EXCEPT !.pending.embeddings = made], "embed")
                  ELSE [commit([job EXCEPT !.pending.embeddings = made])
                        EXCEPT !.pc = "finally"]
    /\ JobUnchanged

\* Lines 155-157
Rollback ==
    /\ job.pc = "except"
    /\ job' = [rollback(job) EXCEPT !.pc = "finally"]
    /\ JobUnchanged

\* Lines 158-159
CloseSession ==
    /\ job.pc = "finally"
    /\ job' = [job EXCEPT !.pc = "ended", !.closed = TRUE]
    /\ JobUnchanged

JobNext ==
    \/ StartJob
    \/ ExtractText
    \/ SavePages
    \/ ChunkPagesStep
    \/ SaveChunks
    \/ SaveEmbeddings
    \/ Rollback
    \/ CloseSession

JobSpec == Init /\ [][JobNext]_vars

(* ------------------------ the example of section 8 --------------------- *)
\* Four passages whose lexical scores for the query "A." are 2, 0, 2, 0.
ExampleChunks ==
    [k \in 1..4 |-> Chunk("forward", 4, k,
                          IF k \in {1, 3} THEN <<"a", "A.">> ELSE <<"b", ".">>)]

ExampleSemArrays ==
    {Arr("float64", [i \in 1..4 |-> Rat(v[i], 10)]) : v \in [1..4 -> {1, 5, 9}]}

ExampleBuild ==
    /\ op # "search"
    /\ HybridSearcherInit(ExampleChunks, Rat(3, 10), Rat(7, 10))

ExampleRank ==
    /\ ready
    /\ op # "search"
    /\ \E q \in Queries, sem \in ExampleSemArrays, k \in TopKs :
           Search(q, sem, k)

ExampleNext == ExampleBuild \/ ExampleRank \/ Release

ExampleSpec == Init /\ [][ExampleNext]_vars

(* ------------------------------ claims --------------------------------- *)
Returned == op = "search" /\ raised = "none"

ReturnedIndices == {results[p].idx : p \in 1..Len(results)}

\* C1: for top_k >= 1 the list search returns is in descending order of
\* fused score, and no passage left out of it has a fused score greater than
\* that of a returned passage.
C1_SortedDescending ==
    (Returned /\ top_k >= 1) =>
        /\ \A p \in 1..(Len(results) - 1) :
               RLeq(results[p + 1].score, results[p].score)
        /\ \A i \in 0..(Size(combined_scores) - 1) :
               i \notin ReturnedIndices =>
                   \A p \in 1..Len(results) :
                       RLeq(At(combined_scores, i), results[p].score)

\* A search that returned two passages of different scores and left one out.
C1_Witness ==
    /\ Returned
    /\ top_k >= 1
    /\ Len(results) >= 2
    /\ RLt(results[2].score, results[1].score)
    /\ Size(combined_scores) > Len(results)
    /\ Size(semantic_scores) = Len(chunks)

\* C2: for top_k >= 1, the list search returns over a collection of n
\* passages has min(top_k, n) entries, with distinct indices in 0..n-1.
C2_TopKBound ==
    (Returned /\ top_k >= 1) =>
        /\ Len(results) = Min(top_k, Len(chunks))
        /\ Cardinality(ReturnedIndices) = Len(results)
        /\ ReturnedIndices \subseteq 0..(Len(chunks) - 1)

\* C3: the score of every returned passage i is
\* bm25_weight * bm25_scores_norm[i] + semantic_weight * semantic_scores_norm[i]
\* with the weights the searcher was constructed with.
C3_WeightedSum ==
    (Returned /\ Size(semantic_scores) = Len(chunks)) =>
        \A p \in 1..Len(results) :
            LET i == results[p].idx
                lex == At(bm25_scores_norm, i)
                sem == At(semantic_scores_norm, i)
            IN  results[p].score =
                    Rat(bm25_weight.n * lex.n * semantic_weight.d * sem.d
                          + semantic_weight.n * sem.n * bm25_weight.d * lex.d,
                        bm25_weight.d * lex.d * semantic_weight.d * sem.d)

\* A search with weights that do not sum to 1 returned a passage.
C3_Witness ==
    /\ Returned
    /\ Size(semantic_scores) = Len(chunks)
    /\ Len(results) >= 2
    /\ RAdd(bm25_weight, semantic_weight) # One
    /\ results[1].score # results[2].score

PassageOf(i) == chunks[i + 1]

\* C4: of two returned passages with equal fused scores, the one with the
\* smaller sequence_index comes first, and on equal sequence_index the one
\* with the smaller id.
C4_TieBreak ==
    (Returned /\ Size(semantic_scores) = Len(chunks)) =>
        \A p \in 1..Len(results) : \A r \in (p + 1)..Len(results) :
            results[p].score = results[r].score =>
                LET first == PassageOf(results[p].idx)
                    second == PassageOf(results[r].idx)
                IN  \/ first.sequence_index < second.sequence_index
                    \/ /\ first.sequence_index = second.sequence_index
                       /\ first.id < second.id

\* C7: building a searcher over an empty collection raises nothing, and
\* ranking against it returns the empty list.
C7_EmptyCollection ==
    chunks = <<>> =>
        /\ op = "init" => raised = "none"
        /\ op = "search" => (raised = "none" /\ results = <<>>)

\* C8: a search whose semantic score vector is not of the collection's
\* length raises an error and returns no ranking.
C8_DimensionMismatch ==
    (op = "search" /\ Size(semantic_scores) # Len(chunks)) =>
        (raised # "none" /\ results = <<>> /\ combined_scores = NoArr)

\* C9: a search with top_k <= 0 raises an error and returns no list.
C9_NonPositiveTopK ==
    (op = "search" /\ top_k <= 0) => raised # "none"

\* C10: the example of section 8.  Lexical scores 2, 0, 2, 0, semantic scores
\* 0.1, 0.9, 0.5, 0.5, weights 0.3 and 0.7, top_k = 2: the normalized vectors
\* are 1, 0, 1, 0 and 0, 1, 0.5, 0.5, the fused scores 0.3, 0.7, 0.65, 0.35
\* and the result the indices 1, 2 in that order.
ExampleCall ==
    /\ op = "search"
    /\ get_scores(bm25, tokenize(query)).vals
           = <<Rat(2, 1), Rat(0, 1), Rat(2, 1), Rat(0, 1)>>
    /\ semantic_scores
           = Arr("float64", <<Rat(1, 10), Rat(9, 10), Rat(5, 10), Rat(5, 10)>>)
    /\ bm25_weight = Rat(3, 10)
    /\ semantic_weight = Rat(7, 10)
    /\ top_k = 2

C10_Example ==
    ExampleCall =>
        /\ raised = "none"
        /\ bm25_scores_norm.vals = <<One, Zero, One, Zero>>
        /\ semantic_scores_norm.vals = <<Zero, One, Half, Half>>
        /\ combined_scores.vals
               = <<Rat(3, 10), Rat(7, 10), Rat(65, 100), Rat(35, 100)>>
        /\ [p \in 1..Len(results) |-> results[p].idx] = <<1, 2>>

C10_Witness == ExampleCall /\ Len(results) = 2

(* ---------------------- claims on _normalize_scores -------------------- *)
Normalized == op = "normalize"

Constant(a) == \A i, j \in Indices(a) : a.vals[i] = a.vals[j]

\* C5: for a non-constant vector, every element of the result lies in [0,1]
\* and is (x - min) / (max - min): the minimum maps to 0, the maximum to 1.
C5_MinMax ==
    (Normalized /\ ~Constant(scores)) =>
        /\ raised = "none"
        /\ Size(normalized) = Size(scores)
        /\ \E lo, hi \in Indices(scores) :
               /\ \A i \in Indices(scores) :
                      /\ scores.vals[lo].n * scores.vals[i].d
                             <= scores.vals[i].n * scores.vals[lo].d
                      /\ scores.vals[i].n * scores.vals[hi].d
                             <= scores.vals[hi].n * scores.vals[i].d
               /\ normalized.vals[lo] = Zero
               /\ normalized.vals[hi] = One
               /\ \A i \in Indices(scores) :
                      /\ RMul(normalized.vals[i],
                              RSub(scores.vals[hi], scores.vals[lo]))
                             = RSub(scores.vals[i], scores.vals[lo])
                      /\ 0 <= normalized.vals[i].n
                      /\ normalized.vals[i].n <= normalized.vals[i].d

\* A vector with an element strictly between its minimum and its maximum.
C5_Witness ==
    /\ Normalized
    /\ ~Constant(scores)
    /\ \E i \in Indices(normalized) :
           RLt(Zero, normalized.vals[i]) /\ RLt(normalized.vals[i], One)

\* C6: for a non-empty constant vector of any numeric type, the result has
\* the same length and every element is exactly 0.5; nothing is raised.
C6_ConstantHalf ==
    (Normalized /\ Size(scores) > 0 /\ Constant(scores)) =>
        /\ raised = "none"
        /\ Size(normalized) = Size(scores)
        /\ \A i \in Indices(normalized) : normalized.vals[i] = Half

(* -------------------- claims on search, continued ---------------------- *)
\* No token of the query occurs in any passage of the collection.
NoMatch ==
    \A j \in 1..Len(tokenize(query)) : \A i \in 1..Len(corpus) :
        Count(corpus[i], tokenize(query)[j]) = 0

\* A search with one semantic score per passage whose query matches nothing.
NoMatchCall ==
    /\ op = "search"
    /\ Size(semantic_scores) = Len(chunks)
    /\ NoMatch

\* Among the passages of the collection, one with a strictly higher semantic
\* score is ranked before one with a lower semantic score.
SemanticOrder ==
    /\ \A p, r \in 1..Len(results) :
           RLt(At(semantic_scores, results[r].idx),
               At(semantic_scores, results[p].idx)) => p < r
    /\ \A p \in 1..Len(results) : \A i \in 0..(Len(chunks) - 1) :
           i \notin ReturnedIndices =>
               RLeq(At(semantic_scores, i), At(semantic_scores, results[p].idx))

\* C11 as stated: when no query token occurs in any passage, search raises
\* nothing, every normalized lexical score is 0.5 and the order follows the
\* semantic scores.
C11_NoMatchSemanticOrder ==
    NoMatchCall =>
        /\ raised = "none"
        /\ \A i \in Indices(bm25_scores_norm) : bm25_scores_norm.vals[i] = Half
        /\ SemanticOrder

\* C11, amended: the same for a searcher whose semantic weight is positive.
C11_NoMatchPositiveWeight ==
    (NoMatchCall /\ RLt(Zero, semantic_weight)) =>
        /\ raised = "none"
        /\ \A i \in Indices(bm25_scores_norm) : bm25_scores_norm.vals[i] = Half
        /\ SemanticOrder

\* A query that matches nothing ranked two passages of different semantic
\* scores.
C11_Witness ==
    /\ NoMatchCall
    /\ RLt(Zero, semantic_weight)
    /\ Len(tokenize(query)) > 0
    /\ Len(results) >= 2
    /\ RLt(At(semantic_scores, results[2].idx), At(semantic_scores, results[1].idx))

\* C13 as stated: every fused score of a returned list lies in [0,1].
C13_UnitInterval ==
    Returned =>
        \A p \in 1..Len(results) :
            RLeq(Zero, results[p].score) /\ RLeq(results[p].score, One)

\* C13, amended: every fused score of a returned list lies in [0,1] when the
\* weights are non-negative and sum to at most 1.
C13_UnitIntervalConvex ==
    (/\ Returned
     /\ RLeq(Zero, bm25_weight)
     /\ RLeq(Zero, semantic_weight)
     /\ RLeq(RAdd(bm25_weight, semantic_weight), One)) =>
        \A p \in 1..Len(results) :
            RLeq(Zero, results[p].score) /\ RLeq(results[p].score, One)

\* The weights 0.3 and 0.7 gave a passage the fused score 1.
C13_Witness ==
    /\ Returned
    /\ bm25_weight = Rat(3, 10)
    /\ semantic_weight = Rat(7, 10)
    /\ Len(results) >= 2
    /\ results[1].score = One
    /\ RLt(results[2].score, One)

\* The position of the passage i in a ranking; past its end if it is not in it.
Pos(ranking, i) ==
    IF \E p \in 1..Len(ranking) : ranking[p] = i
    THEN CHOOSE p \in 1..Len(ranking) : ranking[p] = i
    ELSE Len(ranking) + 1

SameCall ==
    /\ op = "search"
    /\ seen.set
    /\ seen.query = query
    /\ seen.semantic_scores = semantic_scores
    /\ seen.top_k = top_k

CharCall == seg.call = "chunk_text"

Step == seg.chunk_size - seg.overlap

\* The passages in order, each later one without its first overlap characters.
RECURSIVE Reassemble(_, _)
Reassemble(cs, overlap) ==
    IF cs = <<>> THEN <<>>
    ELSE IF Len(cs) = 1 THEN cs[1]
    ELSE Reassemble(SubSeq(cs, 1, Len(cs) - 1), overlap)
         \o SubSeq(cs[Len(cs)], Max(overlap, 0) + 1, Len(cs[Len(cs)]))

Covered == seg.status = "returned" /\ Reassemble(seg.chunks, seg.overlap) = seg.text

\* C15 as stated: for every text and every chunk_size and overlap with
\* overlap < chunk_size, chunk_text returns passages that, joined in order
\* with the overlap removed from each later one, give the text back.
C15_Coverage == (CharCall /\ seg.overlap < seg.chunk_size) => Covered

\* C15: for every text and every chunk_size and overlap with
\* 0 <= overlap < chunk_size, chunk_text returns passages that, joined in
\* order with the overlap removed from each later one, give the text back.
C15_CoverageNonNegative ==
    (CharCall /\ 0 <= seg.overlap /\ seg.overlap < seg.chunk_size) => Covered

C15_Witness ==
    /\ CharCall
    /\ seg.overlap > 0
    /\ seg.overlap < seg.chunk_size
    /\ Len(seg.chunks) >= 3
    /\ Covered

CeilDiv(a, b) == (a + b - 1) \div b

\* The characters of text at the 0-based positions from, ..., from + size - 1
\* that exist.
Window(text, from, size) == SubSeq(text, from + 1, Min(from + size, Len(text)))

\* C16: for a non-empty text and overlap < chunk_size, chunk_text ends and
\* returns exactly ceil(len(text) / (chunk_size - overlap)) passages, the
\* i-th (from 0) being the characters from i * (chunk_size - overlap) up to
\* chunk_size further or the end of the text.
C16_CountAndWindows ==
    (CharCall /\ seg.text # <<>> /\ seg.overlap < seg.chunk_size) =>
        /\ seg.status = "returned"
        /\ Len(seg.chunks) = CeilDiv(Len(seg.text), Step)
        /\ \A i \in 0..(Len(seg.chunks) - 1) :
               seg.chunks[i + 1] = Window(seg.text, i * Step, seg.chunk_size)

C16_Witness ==
    /\ CharCall
    /\ seg.overlap > 0
    /\ seg.overlap < seg.chunk_size
    /\ seg.status = "returned"
    /\ Len(seg.chunks) = 3
    /\ Len(seg.chunks[3]) < seg.chunk_size

\* C17: with overlap >= chunk_size, chunk_text and chunk_text_tokens (given a
\* tokenizer) raise a configuration error: they neither loop forever nor
\* return passages.
C17_RejectsNoProgress ==
    (/\ seg.call \in {"chunk_text", "chunk_text_tokens"}
     /\ (seg.call = "chunk_text_tokens" => seg.tokenizer # "none")
     /\ seg.overlap >= seg.chunk_size) =>
        seg.status = "raised"

\* C18: token mode without a tokenizer raises a configuration error for
\* every input, the empty page sequence and sequences of empty pages
\* included, before any passage is produced.
C18_TokenizerRequired ==
    (/\ seg.call \in {"chunk_text_tokens", "chunk_pages"}
     /\ seg.by_tokens
     /\ seg.tokenizer = "none") =>
        (seg.status = "raised" /\ seg.error = "ValueError" /\ seg.chunks = <<>>)

\* C19: with the tokenizer of one token per character and overlap <
\* chunk_size, chunk_text_tokens returns for every text what chunk_text
\* returns for it.
C19_CharTokenizer ==
    (/\ seg.call = "chunk_text_tokens"
     /\ seg.tokenizer = "chars"
     /\ seg.overlap < seg.chunk_size) =>
        /\ seg.status = "returned"
        /\ seg.status = chunk_text(seg.text, seg.chunk_size, seg.overlap).status
        /\ seg.chunks = chunk_text(seg.text, seg.chunk_size, seg.overlap).chunks

C19_Witness ==
    /\ seg.call = "chunk_text_tokens"
    /\ seg.tokenizer = "chars"
    /\ seg.overlap > 0
    /\ seg.overlap < seg.chunk_size
    /\ seg.status = "returned"
    /\ Len(seg.chunks) >= 2
    /\ \E i, j \in 1..Len(seg.text) : seg.text[i] # seg.text[j]

PagesReturned == seg.call = "chunk_pages" /\ seg.status = "returned"

RecordsOf(p) == {q \in 1..Len(seg.chunks) : seg.chunks[q].page_number = p}

\* C20: every record chunk_pages returns carries the 1-based position of
\* its page, empty earlier pages counted, and the records of one page are
\* numbered 0, 1, 2, ... in order, starting again at 0 on every page.
C20_PageAndIndex ==
    PagesReturned =>
        /\ \A q \in 1..Len(seg.chunks) :
              /\ seg.chunks[q].page_number \in 1..Len(seg.pages)
              /\ seg.overlap < seg.chunk_size =>
                    seg.chunks[q].text =
                        Window(seg.pages[seg.chunks[q].page_number],
                               seg.chunks[q].chunk_index * Step, seg.chunk_size)
              /\ IF q > 1 /\ seg.chunks[q - 1].page_number = seg.chunks[q].page_number
                 THEN seg.chunks[q].chunk_index = seg.chunks[q - 1].chunk_index + 1
                 ELSE /\ seg.chunks[q].chunk_index = 0
                      /\ q > 1 => seg.chunks[q - 1].page_number
                                      < seg.chunks[q].page_number
        /\ \A p \in 1..Len(seg.pages) :
              seg.overlap < seg.chunk_size =>
                  Cardinality(RecordsOf(p)) = CeilDiv(Len(seg.pages[p]), Step)

C20_Witness ==
    /\ PagesReturned
    /\ Len(seg.pages) = 2
    /\ seg.pages[1] = <<>>
    /\ Len(seg.chunks) >= 2
    /\ seg.chunks[1].page_number = 2
    /\ seg.chunks[2].chunk_index = 1

SegReturned == seg.call # "none" /\ seg.status = "returned"

TextOf(q) == IF seg.call = "chunk_pages" THEN seg.chunks[q].text ELSE seg.chunks[q]

\* C21: an empty page text gives no passage for that page, and no passage
\* returned by chunk_text, chunk_text_tokens or chunk_pages has empty text.
C21_NoEmptyPassage ==
    SegReturned =>
        /\ (seg.call # "chunk_pages" /\ seg.text = <<>>) => seg.chunks = <<>>
        /\ \A p \in 1..Len(seg.pages) : seg.pages[p] = <<>> => RecordsOf(p) = {}
        /\ \A q \in 1..Len(seg.chunks) : TextOf(q) # <<>>

\* The 0-based position after the last character of the q-th passage.
EndOf(q) == (q - 1) * Step + Len(seg.chunks[q])

\* C30: for 0 <= overlap < chunk_size every passage of chunk_text after the
\* first holds a character of the text that the passage before it does not.
C30_NewCharacter ==
    (CharCall /\ 0 <= seg.overlap /\ seg.overlap < seg.chunk_size
              /\ seg.status = "returned") =>
        \A q \in 2..Len(seg.chunks) : EndOf(q) > EndOf(q - 1)

(* ----------------------- claims on concurrent calls -------------------- *)
Done(t) == threads[t].pc = "done"

\* The call of thread t run alone on the searcher.
Alone(t) == search(threads[t].query, threads[t].semantic_scores, threads[t].top_k)

\* C22: whatever the interleaving of the statements of the threads' search
\* calls on one searcher, each call ends with the exception or the list it
\* gives when run alone.
C22_Isolated ==
    \A t \in Threads :
        Done(t) => /\ threads[t].raised = Alone(t).raised
                   /\ threads[t].results = Alone(t).results

C22_Witness ==
    /\ Done(1)
    /\ Done(2)
    /\ tokenize(threads[1].query) # tokenize(threads[2].query)
    /\ threads[1].results # <<>>
    /\ threads[1].results # threads[2].results

InSearch(t) == threads[t].pc \notin {"idle", "done"}

\* C23: a statement of search changes neither the passage collection, the
\* tokenized corpus, the lexical index or the weights, nor the semantic
\* vector the caller passed.
C23_Frame ==
    [][\A t \in Threads :
          (InSearch(t) /\ threads'[t] # threads[t]) =>
              /\ searcher_vars' = searcher_vars
              /\ threads'[t].semantic_scores = threads[t].semantic_scores]_vars

C23_Witness ==
    /\ Done(1)
    /\ threads[1].raised = "none"
    /\ threads[1].semantic_scores_norm # threads[1].semantic_scores
    /\ Len(threads[1].results) = 2

(* --------------------------- claims on the API -------------------------- *)
\* C24: POST /query with a JSON body holding a question and a top_k (one
\* that QueryRequest admits) is answered with status 200 and a body that is
\* a JSON list.
C24_QueryReturnsList ==
    (response.endpoint = "POST /query" /\ response.top_k \in 1..50) =>
        (response.status = 200 /\ response.body.kind = "list")

GotDocument == response.endpoint = "GET /documents/{id}"

\* C25: the id a successful POST /documents returned is registered from
\* then on: a GET /documents/{id} with it never answers 404 and, the
\* database answering, returns that document, in database mode as in
\* in-memory mode, for the ids of earlier uploads too.
C25_UploadedIsFound ==
    /\ (response.endpoint = "POST /documents" /\ response.status = 200) =>
           response.body.id \in Keys(IF server.USE_DATABASE THEN server.documents
                                     ELSE server.documents_db)
    /\ (GotDocument /\ response.requested \in Keys(issued)) =>
           /\ response.status # 404
           /\ (response.database_ok \/ ~server.USE_DATABASE) =>
                  /\ response.status = 200
                  /\ response.body.id = response.requested
                  /\ response.body.title = Lookup(issued, response.requested).title

C25_Witness ==
    /\ GotDocument
    /\ server.USE_DATABASE
    /\ Len(issued) = 2
    /\ response.requested = issued[1].id
    /\ response.status = 200

(* ---------------------- claims on answer generation -------------------- *)
Answered == answered.call = "generate_answer"

LlmUnavailable ==
    \/ ~answered.use_openai
    \/ answered.api_key \in {"unset", ""}
    \/ answered.reply.kind = "raise"

\* C26: for non-empty chunks, when use_openai is false, or no API key is
\* set, or generate_answer_openai raises, generate_answer returns what
\* generate_answer_local(question, chunks) returns and raises nothing.
C26_LocalFallback ==
    (Answered /\ answered.chunks # <<>> /\ LlmUnavailable) =>
        /\ answered.result.status = "returned"
        /\ answered.result = generate_answer_local(answered.question, answered.chunks)

C26_Witness ==
    /\ Answered
    /\ answered.use_openai
    /\ answered.api_key = "sk"
    /\ answered.reply.kind = "raise"
    /\ Len(answered.chunks) = 4
    /\ Len(answered.result.citations) = 3

\* C28: every citation generate_answer returns has the chunk_id of one of
\* the chunks it was given, on the LLM path as on the local path.
C28_CitationsInContext ==
    Answered =>
        \A c \in 1..Len(answered.result.citations) :
            \E i \in 1..Len(answered.chunks) :
                answered.result.citations[c].chunk_id = answered.chunks[i].chunk_id

(* ------------------------ claims on get_embedding ----------------------- *)
Embedded == embedded.call = "get_embedding"

\* The attempts 0 .. n-1 all failed.
AllFailed(n) == \A k \in 0..(n - 1) : embedded.outcomes[k] = "fail"

\* C27: for every max_retries, get_embedding makes at most max_retries
\* attempts, stops at the first success, and either returns the embedding of
\* that attempt or raises the exception of the last failed attempt, never
\* returning without an embedding; it sleeps retry_delay * 2^k after the
\* failed attempt k only when another attempt follows.
C27_BoundedRetries ==
    Embedded =>
        LET r == embedded.result
        IN  /\ r.attempts <= Max(embedded.max_retries, 0)
            /\ AllFailed(r.attempts - 1)
            /\ r.attempts >= 1
            /\ \/ /\ r.status = "returned"
                  /\ r.value = EmbeddingOf(r.attempts - 1)
                  /\ embedded.outcomes[r.attempts - 1] = "ok"
               \/ /\ r.status = "raised"
                  /\ r.attempts = embedded.max_retries
                  /\ r.error = ErrorOf(r.attempts - 1)
                  /\ AllFailed(r.attempts)
            /\ r.sleeps = [k \in 1..(r.attempts - 1) |->
                              embedded.retry_delay * Pow2(k - 1)]

(* -------------------- claims on document processing -------------------- *)
\* C29: when a step of process_document_async fails, none of the document's
\* pages, chunks or embeddings is persisted once the task has ended, and the
\* session is closed however the task ends.
C29_AllOrNothing ==
    job.pc = "ended" =>
        /\ job.closed
        /\ job.failed_step # "none" => job.persisted = NoRows

====
